---- MODULE Spec2Model ----
(***************************************************************************)
(* A model of the Stellar payment adapter (src/adapter): the receive       *)
(* poller of Interface (api.py), the send path of AdminAccount.send and    *)
(* Interface.send, Interface.trust_issuer, the upload trigger of           *)
(* ReceiveTransaction (models.py) and the federation server view           *)
(* (stellar_federation.py).                                                *)
(*                                                                         *)
(* Strings are sequences of one-character strings, so that len(), the      *)
(* '*' membership test, split('*') and concatenation are computed.         *)
(* ORM calls are modelled by what they ask of the tables: filter() is the  *)
(* stored rows, latest() the row created last, get() the single matching   *)
(* row or an exception, create() a new row at the end of the table.        *)
(* The network (Horizon) is the environment: payments(cursor) returns the  *)
(* operation records of the account whose paging token is above the        *)
(* cursor, oldest first.                                                   *)
(* Names the code uses for what the models do not define are read as the   *)
(* evident ones: ReceiveTransaction.filter(admin_account=...) as the       *)
(* stored receive rows, tx.currency as the code of tx.asset.               *)
(***************************************************************************)
EXTENDS Integers, Sequences, FiniteSets, TLC

VARIABLES
    \* ---- receive side
    net,        \* payment operation records of the custodial account on the network
    rows,       \* table ReceiveTransaction, in creation order
    assets,     \* table Asset, in creation order
    users,      \* table UserAccount: the account_id of every row
    pc,         \* per poller: "idle", "cursor" (cursor computed), "batch" (processing)
    cursor,     \* per poller: the cursor of _get_new_receives (NoCursor is None)
    page,       \* per poller: the records the network returned to _get_receives
    got,        \* per poller: the list _get_receives returned
    batch,      \* per poller: the records process_receives has still to process
    fin,        \* per poller: how its last cycle ended: "none", "done", "raised"
    quiet,      \* the running cycle began after a completed cycle, with no network
                \* activity since that one began (read where cycles do not overlap)
    lastNet,    \* length of net when the last completed cycle began (-1: none, or it raised)
    startNet,   \* length of net when the running cycle began
    added,      \* rows created by the running (or last) cycle
    ledger,     \* calls made to the ledger of record
    upl,        \* the last call of upload_to_rehive: its row and the calls it made
    \* ---- send side
    funded,     \* accounts that exist on the network
    spc,        \* position of AdminAccount.send
    stx,        \* the SendTransaction being sent
    builder,    \* Interface.builder: memos added and operations appended
    saddr,      \* local `address` of Interface.send
    sroute,     \* how the recipient was resolved
    iroute,     \* how the issuer was resolved
    sfed,       \* the federation response used for the recipient
    serr,       \* the exception that left AdminAccount.send ("none": returned)
    subfail,    \* sign or submit failed in this send
    submitted,  \* transactions this send handed to builder.submit()
    confirms,   \* confirm_rehive_transaction calls of this send
    sbase,      \* the sequence number the Builder of this send was built from
    \* ---- trust_issuer
    tpc,        \* position of the call of trust_issuer
    tissuer,    \* its argument `issuer`
    tbuilder,   \* the Builder of its Interface
    tbase,      \* the sequence number that Builder was built from
    terr,       \* the exception that left trust_issuer ("none": returned)
    tfail,      \* sign or submit failed in this call
    tsubmitted, \* transactions this call handed to builder.submit()
    \* ---- the custodial account on the network
    seqnum,     \* its sequence number
    overlap,    \* the running (or last) send and trust_issuer ran at the same time
    \* ---- federation server
    fedReq,     \* the last request served by StellarFederationView
    fedResp,    \* its response
    fedRead,    \* serving it queried the UserAccount table
    \* ---- configuration
    walletDomain \* settings.STELLAR_WALLET_DOMAIN

pollVars == <<net, rows, assets, pc, cursor, page, got, batch, fin, quiet,
              lastNet, startNet, added, ledger, upl>>
sendVars == <<funded, spc, stx, builder, saddr, sroute, iroute, sfed, serr,
              subfail, submitted, confirms, sbase>>
trustVars == <<tpc, tissuer, tbuilder, tbase, terr, tfail, tsubmitted>>
seqVars  == <<seqnum, overlap>>
fedVars  == <<fedReq, fedResp, fedRead>>
vars == <<pollVars, sendVars, trustVars, seqVars, fedVars, users, walletDomain>>

----------------------------------------------------------------------------
\* Strings

Star == "*"

Contains(s, c) == \E i \in 1..Len(s) : s[i] = c

\* the positions of c in s
Positions(s, c) == {i \in 1..Len(s) : s[i] = c}

\* s.split(c)[0]: what precedes the first c (all of s when it holds none)
SplitFirst(s, c) ==
    IF Contains(s, c)
    THEN LET k == CHOOSE i \in Positions(s, c) : \A j \in Positions(s, c) : i <= j
         IN  SubSeq(s, 1, k - 1)
    ELSE s

\* len(s.split(c))
SplitCount(s, c) == Cardinality(Positions(s, c)) + 1

\* a string of n characters, '*' at the positions of `stars`
MkStr(n, stars) == [i \in 1..n |-> IF i \in stars THEN Star ELSE "a"]

RehiveSuffix == <<"*", "r", "e", "h", "i", "v", "e", ".", "c", "o", "m">>
RehiveDomain == Tail(RehiveSuffix)

\* None, and the empty string: both are false in a Python condition
NoStr == <<>>

----------------------------------------------------------------------------
\* Bounds and input sets

MaxNet == 2

Pollers == {1, 2}

HotWallet == "GHOT"     \* account.account_id of the custodial account
Sender    == "GEXT"     \* some other account of the network

NoCursor == 0
FirstToken == 10
TxGap == 4              \* paging tokens of operations of different transactions are far apart

Alice == <<"a", "l">>
Zed   == <<"z">>

KnownUsers == {Alice \o RehiveSuffix}
Memos == {NoStr, Alice, Zed}
Directions == {"in", "out", "self"}
NativeAsset == [asset_type |-> "native", asset_code |-> "", asset_issuer |-> ""]
AssetKinds == {NativeAsset}


----------------------------------------------------------------------------
\* The network: the custodial account's payment history

From(dir) == IF dir = "in" THEN Sender ELSE HotWallet
To(dir)   == IF dir = "out" THEN Sender ELSE HotWallet

\* A new operation appears in the account's history: the first operation of a
\* new transaction, or one more operation of the last transaction (same
\* hash, same memo, the next paging token).
NetPaymentOf(dirs, memos, kinds, multiOp) ==
    /\ Len(net) < MaxNet
    /\ \E sameTx \in multiOp, dir \in dirs, m \in memos, k \in kinds :
         /\ sameTx => Len(net) > 0
         /\ LET last == net[Len(net)]
                rec  == [paging_token |->
                             IF Len(net) = 0 THEN FirstToken
                             ELSE IF sameTx THEN last.paging_token + 1
                             ELSE last.paging_token + TxGap,
                         hash |-> IF Len(net) = 0 THEN 1
                                  ELSE IF sameTx THEN last.hash
                                  ELSE last.hash + 1,
                         from |-> From(dir),
                         to   |-> To(dir),
                         memo |-> IF sameTx THEN last.memo ELSE m,
                         asset_type |-> k.asset_type,
                         asset_code |-> k.asset_code,
                         asset_issuer |-> k.asset_issuer]
            IN  net' = Append(net, rec)
    /\ quiet' = FALSE
    /\ lastNet' = -1
    /\ UNCHANGED <<rows, assets, pc, cursor, page, got, batch, fin, startNet, added, ledger, upl>>
    /\ UNCHANGED <<sendVars, trustVars, seqVars, fedVars, users, walletDomain>>

\* address.payments(cursor=c)['_embedded']['records']
Payments(c) == SelectSeq(net, LAMBDA r : r.paging_token > c)

----------------------------------------------------------------------------
\* Interface._get_receives: the filter that pops from the list it enumerates

RemoveAt(s, i) == SubSeq(s, 1, i - 1) \o SubSeq(s, i + 1, Len(s))

\* the test of the loop: line 116 with a cursor, line 123 without
IsPopped(tx, withCursor) ==
    IF withCursor THEN tx.to # HotWallet ELSE tx.from = HotWallet

\* for i, tx in enumerate(transactions): if <test>: transactions.pop(i)
\* the list iterator reads index i of the list as it is now, then moves to i + 1
RECURSIVE PopLoop(_, _, _)
PopLoop(txs, i, withCursor) ==
    IF i > Len(txs) THEN txs
    ELSE IF IsPopped(txs[i], withCursor)
         THEN PopLoop(RemoveAt(txs, i), i + 1, withCursor)
         ELSE PopLoop(txs, i + 1, withCursor)

GetReceives(records, c) == PopLoop(records, 1, c # NoCursor)

----------------------------------------------------------------------------
\* Interface._get_new_receives and Interface.process_receives

\* transactions.latest(): the row created last
Latest(table) == table[Len(table)]

NewCursor(table) ==
    IF table = <<>> THEN NoCursor ELSE Latest(table).paging_token + 1

\* lines 97-103: read the stored rows and set the cursor
PollCursor(p) ==
    /\ pc[p] = "idle"
    /\ cursor' = [cursor EXCEPT ![p] = NewCursor(rows)]
    /\ pc' = [pc EXCEPT ![p] = "cursor"]
    /\ page' = [page EXCEPT ![p] = <<>>]
    /\ got' = [got EXCEPT ![p] = <<>>]
    /\ fin' = [fin EXCEPT ![p] = "none"]
    /\ quiet' = (lastNet = Len(net))
    /\ startNet' = Len(net)
    /\ added' = 0
    /\ UNCHANGED <<net, rows, assets, batch, lastNet, ledger, upl>>
    /\ UNCHANGED <<sendVars, trustVars, seqVars, fedVars, users, walletDomain>>

\* lines 106, 110-126: fetch the records after the cursor and filter them
PollFetch(p) ==
    /\ pc[p] = "cursor"
    /\ LET records == Payments(cursor[p])
           kept    == GetReceives(records, cursor[p])
       IN  /\ page' = [page EXCEPT ![p] = records]
           /\ got' = [got EXCEPT ![p] = kept]
           /\ batch' = [batch EXCEPT ![p] = kept]
    /\ pc' = [pc EXCEPT ![p] = "batch"]
    /\ UNCHANGED <<net, rows, assets, cursor, fin, quiet, lastNet, startNet, added, ledger, upl>>
    /\ UNCHANGED <<sendVars, trustVars, seqVars, fedVars, users, walletDomain>>

\* Asset.objects.get(account_id=..., code=...)
AssetsWith(code, account) ==
    {i \in 1..Len(assets) : assets[i].code = code /\ assets[i].account_id = account}
AssetsOfCode(code) == {i \in 1..Len(assets) : assets[i].code = code}

CreateStatusPending == "Pending"

\* status='Waiting' of ReceiveTransaction.objects.create
CreateStatus == "Waiting"

\* ReceiveTransaction.upload_to_rehive, lines 52-60 of models.py: the calls it
\* makes for the row as stored
UploadToRehive(row) ==
    IF row.rehive_code = NoStr
    THEN IF row.status = "Pending"
         THEN <<[call |-> "create_or_confirm", id |-> row.id, confirm |-> FALSE]>>
         ELSE <<>>
    ELSE IF row.status = "Confirmed"
         THEN <<[call |-> "create_or_confirm", id |-> row.id, confirm |-> TRUE]>>
         ELSE <<>>

\* the mutant of refresh_from_db: the instance is used as it is
RefreshFromDbStale(table, instance) == instance

\* self.refresh_from_db(), line 54 of models.py: the row as stored
RefreshFromDb(table, instance) == table[instance.id]

\* one call of upload_to_rehive on an instance: the calls it makes
UploadCalls(table, instance) == UploadToRehive(RefreshFromDb(table, instance))

NoUpload == [row |-> 0, calls |-> <<>>]

UserKey(memo) == memo \o RehiveSuffix

Raise(p) ==
    /\ pc' = [pc EXCEPT ![p] = "idle"]
    /\ batch' = [batch EXCEPT ![p] = <<>>]
    /\ fin' = [fin EXCEPT ![p] = "raised"]
    /\ lastNet' = -1

\* one iteration of the loop of process_receives: _process_receive(tx)
ProcessReceive(p) ==
    /\ pc[p] = "batch"
    /\ batch[p] # <<>>
    /\ LET tx == Head(batch[p])
           native == tx.asset_type = "native"
           currency == IF native THEN "XLM" ELSE tx.asset_code
       IN  IF tx.memo = NoStr
           THEN \* no memo: nothing is done
                /\ batch' = [batch EXCEPT ![p] = Tail(batch[p])]
                /\ UNCHANGED <<rows, assets, pc, fin, lastNet, added, ledger, upl>>
           ELSE IF UserKey(tx.memo) \notin users
           THEN \* UserAccount.objects.get raises DoesNotExist
                /\ Raise(p)
                /\ UNCHANGED <<rows, assets, added, ledger, upl>>
           ELSE IF ~native /\ Cardinality(AssetsWith(currency, tx.asset_issuer)) # 1
           THEN \* Asset.objects.get raises
                /\ Raise(p)
                /\ UNCHANGED <<rows, assets, added, ledger, upl>>
           ELSE IF Cardinality(AssetsOfCode(currency)) > 1
           THEN \* get_or_create raises MultipleObjectsReturned
                /\ Raise(p)
                /\ UNCHANGED <<rows, assets, added, ledger, upl>>
           ELSE LET created == AssetsOfCode(currency) = {}
                    assets2 == IF created
                               THEN Append(assets, [code |-> currency, issuer |-> "",
                                                    account_id |-> ""])
                               ELSE assets
                    asset   == CHOOSE i \in 1..Len(assets2) : assets2[i].code = currency
                    issuer  == IF native THEN ""
                               ELSE assets[CHOOSE i \in AssetsWith(currency, tx.asset_issuer) : TRUE].issuer
                    row == [id |-> Len(rows) + 1,
                            user_account |-> UserKey(tx.memo),
                            external_id |-> tx.hash,
                            asset |-> asset,
                            issuer |-> issuer,
                            status |-> CreateStatus,
                            rehive_code |-> NoStr,
                            paging_token |-> tx.paging_token]
                IN  /\ assets' = assets2
                    /\ rows' = Append(rows, row)
                    /\ ledger' = ledger \o UploadCalls(Append(rows, row), row)
                    /\ upl' = [row |-> row.id,
                               calls |-> UploadCalls(Append(rows, row), row)]
                    /\ added' = added + 1
                    /\ batch' = [batch EXCEPT ![p] = Tail(batch[p])]
                    /\ UNCHANGED <<pc, fin, lastNet>>
    /\ UNCHANGED <<net, cursor, page, got, quiet, startNet>>
    /\ UNCHANGED <<sendVars, trustVars, seqVars, fedVars, users, walletDomain>>

\* the loop of process_receives is over
PollFinish(p) ==
    /\ pc[p] = "batch"
    /\ batch[p] = <<>>
    /\ pc' = [pc EXCEPT ![p] = "idle"]
    /\ fin' = [fin EXCEPT ![p] = "done"]
    /\ lastNet' = startNet
    /\ UNCHANGED <<net, rows, assets, cursor, page, got, batch, quiet, startNet, added, ledger, upl>>
    /\ UNCHANGED <<sendVars, trustVars, seqVars, fedVars, users, walletDomain>>

InitPollWith(assetTables, userTables) ==
    /\ net = <<>>
    /\ rows = <<>>
    /\ assets \in assetTables
    /\ users \in userTables
    /\ pc = [p \in Pollers |-> "idle"]
    /\ cursor = [p \in Pollers |-> NoCursor]
    /\ page = [p \in Pollers |-> <<>>]
    /\ got = [p \in Pollers |-> <<>>]
    /\ batch = [p \in Pollers |-> <<>>]
    /\ fin = [p \in Pollers |-> "none"]
    /\ quiet = FALSE
    /\ lastNet = -1
    /\ startNet = 0
    /\ added = 0
    /\ ledger = <<>>
    /\ upl = NoUpload

InitPollOf(assetTables) == InitPollWith(assetTables, {KnownUsers})

InitPoll == InitPollOf({<<>>})

NoTx == [id |-> 0, recipient |-> NoStr, asset |-> "", issuer |-> NoStr, amount |-> 0]
NoBuilder == [has |-> FALSE, memos |-> <<>>, ops |-> <<>>]
NoFed == [memo_type |-> "", memo |-> NoStr, account_id |-> NoStr]

InitSendIdle ==
    /\ funded = {}
    /\ spc = "idle"
    /\ stx = NoTx
    /\ builder = NoBuilder
    /\ saddr = NoStr
    /\ sroute = ""
    /\ iroute = ""
    /\ sfed = NoFed
    /\ serr = "none"
    /\ subfail = FALSE
    /\ submitted = <<>>
    /\ confirms = <<>>
    /\ sbase = 0

InitTrustIdle ==
    /\ tpc = "idle"
    /\ tissuer = NoStr
    /\ tbuilder = NoBuilder
    /\ tbase = 0
    /\ terr = "none"
    /\ tfail = FALSE
    /\ tsubmitted = <<>>
    /\ seqnum = 0
    /\ overlap = FALSE

NoReq == [method |-> "", type |-> "", q |-> NoStr, short |-> NoStr]
NoResp == [status |-> "", stellar_address |-> NoStr, account_id |-> NoStr,
           memo_type |-> "", memo |-> NoStr]

InitFedIdle ==
    /\ fedReq = NoReq
    /\ fedResp = NoResp
    /\ fedRead = FALSE
    /\ walletDomain = RehiveDomain

----------------------------------------------------------------------------
\* Poll cycles run one after the other by one worker

NetPayment == NetPaymentOf(Directions, Memos, AssetKinds, BOOLEAN)

NextSeq ==
    \/ NetPayment
    \/ PollCursor(1)
    \/ PollFetch(1)
    \/ ProcessReceive(1)
    \/ PollFinish(1)

InitSeq == InitPoll /\ InitSendIdle /\ InitTrustIdle /\ InitFedIdle

SpecSeq == InitSeq /\ [][NextSeq]_vars

----------------------------------------------------------------------------
\* Two workers run poll cycles at the same time (process_receive is a
\* periodic task; nothing in process_receives takes a lock). Every
\* transaction of this history has one operation.

NetPaymentSingle == NetPaymentOf(Directions, Memos, AssetKinds, {FALSE})

NextConc ==
    \/ NetPaymentSingle
    \/ \E p \in Pollers : PollCursor(p)
    \/ \E p \in Pollers : PollFetch(p)
    \/ \E p \in Pollers : ProcessReceive(p)
    \/ \E p \in Pollers : PollFinish(p)

SpecConc == InitSeq /\ [][NextConc]_vars

----------------------------------------------------------------------------
\* Poll cycles scheduled again and again: process_receive is a periodic task,
\* so a worker that can take its next step takes it. The network is the
\* environment: it may stop producing payments. Every transaction of this
\* history has one operation.

NextLive ==
    \/ NetPaymentSingle
    \/ PollCursor(1)
    \/ PollFetch(1)
    \/ ProcessReceive(1)
    \/ PollFinish(1)

FairPoll ==
    /\ WF_vars(PollCursor(1))
    /\ WF_vars(PollFetch(1))
    /\ WF_vars(ProcessReceive(1))
    /\ WF_vars(PollFinish(1))

SpecLive == InitSeq /\ [][NextLive]_vars /\ FairPoll

----------------------------------------------------------------------------
\* The reconciliation pipeline. The code that moves a ReceiveTransaction from
\* one status to the next (adapter/rehive_api.py, the task
\* create_or_confirm_rehive_receive) is not among the sources: the two actions
\* below follow section 4.7 of the specification.

NextStatus(st) ==
    CASE st = "Waiting"   -> "Pending"
      [] st = "Pending"   -> "Confirmed"
      [] st = "Confirmed" -> "Complete"

ReconAdvance(i) ==
    /\ rows[i].status \in {"Waiting", "Pending", "Confirmed"}
    /\ rows' = [rows EXCEPT ![i].status = NextStatus(rows[i].status)]
    /\ UNCHANGED <<net, assets, pc, cursor, page, got, batch, fin, quiet,
                   lastNet, startNet, added, ledger, upl>>
    /\ UNCHANGED <<sendVars, trustVars, seqVars, fedVars, users, walletDomain>>

ReconFail(i) ==
    /\ rows[i].status \in {"Waiting", "Pending", "Confirmed"}
    /\ rows' = [rows EXCEPT ![i].status = "Failed"]
    /\ UNCHANGED <<net, assets, pc, cursor, page, got, batch, fin, quiet,
                   lastNet, startNet, added, ledger, upl>>
    /\ UNCHANGED <<sendVars, trustVars, seqVars, fedVars, users, walletDomain>>

NetPaymentIn == NetPaymentOf({"in"}, {NoStr, Alice}, AssetKinds, {FALSE})

NextRecon ==
    \/ NetPaymentIn
    \/ PollCursor(1)
    \/ PollFetch(1)
    \/ ProcessReceive(1)
    \/ PollFinish(1)
    \/ \E i \in 1..Len(rows) : ReconAdvance(i)
    \/ \E i \in 1..Len(rows) : ReconFail(i)

SpecRecon == InitSeq /\ [][NextRecon]_vars

----------------------------------------------------------------------------
\* Receipts of issued assets: the operator has stored Asset rows for none,
\* one or both of two issuers of the code USD

IssuerA == "GISA"
IssuerB == "GISB"

Credit(issuer) == [asset_type |-> "credit_alphanum4", asset_code |-> "USD",
                   asset_issuer |-> issuer]

\* an Asset row of the operator: account_id is the issuer's address
StoredAsset(name, account) == [code |-> "USD", issuer |-> name, account_id |-> account]

AssetTables ==
    {<<>>,
     <<StoredAsset("anchor-a", IssuerA)>>,
     <<StoredAsset("anchor-a", IssuerA), StoredAsset("anchor-b", IssuerB)>>}

NetPaymentAsset ==
    NetPaymentOf({"in"}, {NoStr, Alice}, {NativeAsset, Credit(IssuerA), Credit(IssuerB)},
                 {FALSE})

InitAsset == InitPollOf(AssetTables) /\ InitSendIdle /\ InitTrustIdle /\ InitFedIdle

NextAsset ==
    \/ NetPaymentAsset
    \/ PollCursor(1)
    \/ PollFetch(1)
    \/ ProcessReceive(1)
    \/ PollFinish(1)

SpecAsset == InitAsset /\ [][NextAsset]_vars

----------------------------------------------------------------------------
\* ReceiveTransaction.upload_to_rehive called on rows of every status, with
\* and without a rehive_code

Statuses == {"Waiting", "Pending", "Confirmed", "Complete", "Failed"}
RehiveCodes == {NoStr, <<"c", "1">>}

MaxCalls == 2           \* upload_to_rehive is called while the ledger has fewer calls

StoredRow(i, st, code) ==
    [id |-> i,
     user_account |-> UserKey(Alice),
     external_id |-> i,
     asset |-> 1,
     issuer |-> "",
     status |-> st,
     rehive_code |-> code,
     paging_token |-> FirstToken + (i - 1) * TxGap]

\* tx.upload_to_rehive() on an instance of row i loaded earlier: its status
\* and rehive_code in memory may differ from the stored ones
UploadToRehiveCall(i) ==
    /\ Len(ledger) < MaxCalls
    /\ \E st \in Statuses, code \in RehiveCodes :
         LET instance == [rows[i] EXCEPT !.status = st, !.rehive_code = code]
         IN  /\ upl' = [row |-> i, calls |-> UploadCalls(rows, instance)]
             /\ ledger' = ledger \o UploadCalls(rows, instance)
    /\ UNCHANGED <<net, rows, assets, pc, cursor, page, got, batch, fin, quiet,
                   lastNet, startNet, added>>
    /\ UNCHANGED <<sendVars, trustVars, seqVars, fedVars, users, walletDomain>>

InitUpload ==
    /\ net = <<>>
    /\ \E s1, s2 \in Statuses, c1, c2 \in RehiveCodes :
         rows = <<StoredRow(1, s1, c1), StoredRow(2, s2, c2)>>
    /\ assets = <<[code |-> "XLM", issuer |-> "", account_id |-> ""]>>
    /\ users = KnownUsers
    /\ pc = [p \in Pollers |-> "idle"]
    /\ cursor = [p \in Pollers |-> NoCursor]
    /\ page = [p \in Pollers |-> <<>>]
    /\ got = [p \in Pollers |-> <<>>]
    /\ batch = [p \in Pollers |-> <<>>]
    /\ fin = [p \in Pollers |-> "none"]
    /\ quiet = FALSE
    /\ lastNet = -1
    /\ startNet = 0
    /\ added = 0
    /\ ledger = <<>>
    /\ upl = NoUpload
    /\ InitSendIdle
    /\ InitTrustIdle
    /\ InitFedIdle

NextUpload == \E i \in 1..Len(rows) : UploadToRehiveCall(i)

SpecUpload == InitUpload /\ [][NextUpload]_vars

----------------------------------------------------------------------------
\* The send path: AdminAccount.send and Interface.send

AddressLength == 56
ShortLen == 5
MaxSeq == 2             \* sends and trust calls start while the sequence number is below it

MkAddr(ch) == [i \in 1..AddressLength |-> ch]

HotAddr    == MkAddr("h")   \* account_id of the custodial account
RawDest    == MkAddr("d")   \* a raw address used as recipient
RawIssuer  == MkAddr("i")   \* a raw address used as issuer
FedAccount == MkAddr("f")   \* the account_id a federation server answers
DomAccount == MkAddr("c")   \* the issuer an anchor's stellar.toml lists

FedName  == MkStr(ShortLen, {3})               \* name*domain
TwoStars == MkStr(ShortLen, {2, 4})
Domain   == MkStr(ShortLen, {})                \* an anchor domain
Star56   == MkStr(AddressLength, {5})          \* 56 characters, one of them '*'
Short55  == MkStr(AddressLength - 1, {})
Long57   == MkStr(AddressLength + 1, {})

Recipients == {RawDest, FedName, TwoStars, Domain, Star56, Short55, Long57}
Issuers    == {RawIssuer, FedName, Domain, Star56}
Amounts    == {7}
Bob        == <<"b", "o", "b">>

\* what the federation server of the recipient's domain may answer
FedResponses ==
    {[memo_type |-> t, memo |-> Bob, account_id |-> FedAccount] :
        t \in {"text", "id", "hash", "none"}}

\* the mutant of _is_valid_address: the '*' test dropped
IsValidAddressNoStarTest(address) == Len(address) = AddressLength

\* Interface._is_valid_address
IsValidAddress(address) ==
    Len(address) = AddressLength /\ ~Contains(address, Star)

\* get_federation_details(address): the exception it raises, or the JSON of
\* the federation server
GetFederationDetails(address) ==
    IF ~Contains(address, Star)
    THEN {[err |-> "TypeError", fed |-> NoFed]}
    ELSE IF SplitCount(address, Star) # 2
    THEN {[err |-> "ValueError", fed |-> NoFed]}     \* user_id, domain = ...
    ELSE {[err |-> "LookupFailed", fed |-> NoFed]}
         \cup {[err |-> "none", fed |-> f] : f \in FedResponses}

\* address_from_domain(domain, code): the issuer of the matching currency,
\* None when the loop ends without a match, or an exception
AddressFromDomain(domain) ==
    {[err |-> "LookupFailed", address |-> NoStr],
     [err |-> "none", address |-> DomAccount],
     [err |-> "none", address |-> NoStr]}

\* Interface.get_issuer_address
GetIssuerAddress(issuer) ==
    IF IsValidAddress(issuer)
    THEN {[err |-> "none", address |-> issuer, route |-> "raw"]}
    ELSE IF Contains(issuer, Star)
    THEN {[err |-> r.err, address |-> r.fed.account_id,
           route |-> "get_federation_details"] : r \in GetFederationDetails(issuer)}
    ELSE {[err |-> r.err, address |-> r.address,
           route |-> "address_from_domain"] : r \in AddressFromDomain(issuer)}

\* the mutant of the memo branches: every memo is added as a text memo
AddMemoAlwaysText(b, fed) ==
    [b EXCEPT !.memos = Append(@, [type |-> "text", value |-> fed.memo])]

\* lines 187-192: builder.add_text_memo / add_id_memo / add_hash_memo
AddMemo(b, fed) ==
    IF fed.memo_type = "text"
    THEN [b EXCEPT !.memos = Append(@, [type |-> "text", value |-> fed.memo])]
    ELSE IF fed.memo_type = "id"
    THEN [b EXCEPT !.memos = Append(@, [type |-> "id", value |-> fed.memo])]
    ELSE [b EXCEPT !.memos = Append(@, [type |-> "hash", value |-> fed.memo])]

PaymentOp(dest, amount, code, issuer) ==
    [type |-> "payment", destination |-> dest, amount |-> amount,
     asset |-> code, issuer |-> issuer]

CreateAccountOp(dest, amount) ==
    [type |-> "create_account", destination |-> dest, amount |-> amount,
     asset |-> "XLM", issuer |-> NoStr]

AppendOp(b, op) == [b EXCEPT !.ops = Append(@, op)]

\* self.address.get(): self.address is Address(address=account.account_id),
\* the custodial account
AddressGet == IF HotAddr \in funded THEN {"ok", "error"} ELSE {"404"}

SendRaise(e) ==
    /\ spc' = "raised"
    /\ serr' = e

\* AdminAccount.send, lines 156-157: a new Interface (and Builder, when the
\* account has a secret), then interface.send(tx)
InSendSection == spc \in {"resolve", "build", "sign"}
InTrustSection == tpc \in {"build", "sign"}

AdminSendOf(recipients, issuers, secrets) ==
    /\ spc \in {"idle", "confirmed", "raised"}
    /\ seqnum < MaxSeq
    /\ \E r \in recipients, code \in {"XLM", "USD"}, iss \in issuers,
          am \in Amounts, secret \in secrets :
         /\ code = "XLM" => iss = RawIssuer
         /\ stx' = [id |-> 1, recipient |-> r, asset |-> code,
                    issuer |-> IF code = "XLM" THEN NoStr ELSE iss, amount |-> am]
         /\ builder' = [has |-> secret, memos |-> <<>>, ops |-> <<>>]
    /\ spc' = "resolve"
    /\ saddr' = NoStr
    /\ sroute' = ""
    /\ iroute' = ""
    /\ sfed' = NoFed
    /\ serr' = "none"
    /\ subfail' = FALSE
    /\ submitted' = <<>>
    /\ confirms' = <<>>
    /\ sbase' = seqnum      \* the Builder reads the account's sequence number
    /\ overlap' = InTrustSection
    /\ UNCHANGED <<funded, seqnum, pollVars, trustVars, fedVars, users, walletDomain>>

AdminSend == AdminSendOf(Recipients, Issuers, BOOLEAN)

\* Interface.send, lines 183-196: the recipient
SendResolve ==
    /\ spc = "resolve"
    /\ IF IsValidAddress(stx.recipient)
       THEN /\ saddr' = stx.recipient
            /\ sroute' = "raw"
            /\ spc' = "build"
            /\ UNCHANGED <<builder, sfed, serr>>
       ELSE \E res \in GetFederationDetails(stx.recipient) :
              /\ sroute' = "get_federation_details"
              /\ sfed' = res.fed
              /\ IF res.err # "none"
                 THEN SendRaise(res.err) /\ UNCHANGED <<builder, saddr>>
                 ELSE IF res.fed.memo_type \notin {"text", "id", "hash"}
                 THEN SendRaise("NotImplementedAPIError") /\ UNCHANGED <<builder, saddr>>
                 ELSE IF ~builder.has
                 THEN SendRaise("AttributeError") /\ UNCHANGED <<builder, saddr>>
                 ELSE /\ builder' = AddMemo(builder, res.fed)
                      /\ saddr' = res.fed.account_id
                      /\ spc' = "build"
                      /\ UNCHANGED serr
    /\ UNCHANGED <<funded, stx, iroute, subfail, submitted, confirms, sbase>>
    /\ UNCHANGED <<pollVars, trustVars, seqVars, fedVars, users, walletDomain>>

\* Interface.send, lines 199-213: the operation
SendBuild ==
    /\ spc = "build"
    /\ IF stx.asset = "XLM"
       THEN \E g \in AddressGet :
              /\ iroute' = iroute
              /\ IF g = "error"
                 THEN \* an APIException whose status is not 404: nothing is appended
                      spc' = "sign" /\ UNCHANGED <<builder, serr>>
                 ELSE IF ~builder.has
                 THEN SendRaise("AttributeError") /\ UNCHANGED builder
                 ELSE /\ builder' =
                            IF g = "ok"
                            THEN AppendOp(builder, PaymentOp(saddr, stx.amount, "XLM", NoStr))
                            ELSE AppendOp(builder, CreateAccountOp(saddr, stx.amount))
                      /\ spc' = "sign"
                      /\ UNCHANGED serr
       ELSE \E res \in GetIssuerAddress(stx.issuer), g \in AddressGet :
              /\ iroute' = res.route
              /\ IF res.err # "none"
                 THEN SendRaise(res.err) /\ UNCHANGED builder
                 ELSE IF g # "ok"
                 THEN SendRaise("APIException") /\ UNCHANGED builder
                 ELSE IF ~builder.has
                 THEN SendRaise("AttributeError") /\ UNCHANGED builder
                 ELSE /\ builder' = AppendOp(builder,
                                        PaymentOp(saddr, stx.amount, stx.asset, res.address))
                      /\ spc' = "sign"
                      /\ UNCHANGED serr
    /\ UNCHANGED <<funded, stx, saddr, sroute, sfed, subfail, submitted, confirms, sbase>>
    /\ UNCHANGED <<pollVars, trustVars, seqVars, fedVars, users, walletDomain>>

\* Interface.send, lines 215-219: sign and submit; the handler prints
\* exc.payload, which an exception without that attribute turns into an
\* AttributeError
SendSign ==
    /\ spc = "sign"
    /\ IF ~builder.has
       THEN /\ subfail' = TRUE
            /\ SendRaise("AttributeError")
            /\ UNCHANGED <<submitted, seqnum>>
       ELSE \E out \in {"ok", "sign_failed", "submit_failed"}, payload \in BOOLEAN :
              /\ out = "ok" => payload
              \* the network accepts a transaction only with the next sequence number
              /\ out = "ok" => sbase = seqnum
              /\ seqnum' = IF out = "ok" THEN seqnum + 1 ELSE seqnum
              /\ submitted' =
                    IF out = "sign_failed" THEN submitted
                    ELSE Append(submitted, [memos |-> builder.memos, ops |-> builder.ops,
                                            base |-> sbase, accepted |-> out = "ok"])
              /\ subfail' = (out # "ok")
              /\ IF out = "ok" \/ payload
                 THEN spc' = "returned" /\ UNCHANGED serr
                 ELSE SendRaise("AttributeError")
    /\ UNCHANGED <<funded, stx, builder, saddr, sroute, iroute, sfed, confirms, sbase>>
    /\ UNCHANGED <<overlap, pollVars, trustVars, fedVars, users, walletDomain>>

\* AdminAccount.send, line 158: interface.send returned
AdminConfirm ==
    /\ spc = "returned"
    /\ confirms' = Append(confirms, [tx_id |-> stx.id, tx_type |-> "send"])
    /\ spc' = "confirmed"
    /\ UNCHANGED <<funded, stx, builder, saddr, sroute, iroute, sfed, serr,
                   subfail, submitted, sbase>>
    /\ UNCHANGED <<pollVars, trustVars, seqVars, fedVars, users, walletDomain>>

InitSend ==
    /\ InitPoll
    /\ InitFedIdle
    /\ funded \in SUBSET {HotAddr, RawDest, FedAccount}
    /\ spc = "idle"
    /\ stx = NoTx
    /\ builder = NoBuilder
    /\ saddr = NoStr
    /\ sroute = ""
    /\ iroute = ""
    /\ sfed = NoFed
    /\ serr = "none"
    /\ subfail = FALSE
    /\ submitted = <<>>
    /\ confirms = <<>>
    /\ sbase = 0
    /\ InitTrustIdle

NextSend ==
    \/ AdminSend
    \/ SendResolve
    \/ SendBuild
    \/ SendSign
    \/ AdminConfirm

SpecSend == InitSend /\ [][NextSend]_vars

----------------------------------------------------------------------------
\* Interface.trust_issuer, called on a new Interface of the custodial account

TrustCode == "USD"

TrustOp(issuer, code) ==
    [type |-> "change_trust", destination |-> NoStr, amount |-> 0,
     asset |-> code, issuer |-> issuer]

TrustRaise(e) ==
    /\ tpc' = "raised"
    /\ terr' = e

\* Interface(account): lines 87-93; then the call trust_issuer(asset_code, issuer)
TrustStart ==
    /\ tpc \in {"idle", "returned", "raised"}
    /\ seqnum < MaxSeq
    /\ \E iss \in Issuers, secret \in BOOLEAN :
         /\ tissuer' = iss
         /\ tbuilder' = [has |-> secret, memos |-> <<>>, ops |-> <<>>]
    /\ tbase' = seqnum
    /\ tpc' = "build"
    /\ terr' = "none"
    /\ tfail' = FALSE
    /\ tsubmitted' = <<>>
    /\ overlap' = InSendSection
    /\ UNCHANGED <<seqnum, pollVars, sendVars, fedVars, users, walletDomain>>

\* lines 241-242: the issuer and the change-trust operation
TrustBuild ==
    /\ tpc = "build"
    /\ \E res \in GetIssuerAddress(tissuer) :
         IF res.err # "none"
         THEN TrustRaise(res.err) /\ UNCHANGED tbuilder
         ELSE IF ~tbuilder.has
         THEN TrustRaise("AttributeError") /\ UNCHANGED tbuilder
         ELSE /\ tbuilder' = AppendOp(tbuilder, TrustOp(res.address, TrustCode))
              /\ tpc' = "sign"
              /\ UNCHANGED terr
    /\ UNCHANGED <<tissuer, tbase, tfail, tsubmitted>>
    /\ UNCHANGED <<pollVars, sendVars, seqVars, fedVars, users, walletDomain>>

\* lines 244-248: sign and submit; the handler prints exc.payload
TrustSign ==
    /\ tpc = "sign"
    /\ \E out \in {"ok", "sign_failed", "submit_failed"}, payload \in BOOLEAN :
         /\ out = "ok" => payload
         /\ out = "ok" => tbase = seqnum
         /\ seqnum' = IF out = "ok" THEN seqnum + 1 ELSE seqnum
         /\ tsubmitted' =
               IF out = "sign_failed" THEN tsubmitted
               ELSE Append(tsubmitted, [memos |-> tbuilder.memos, ops |-> tbuilder.ops,
                                        base |-> tbase, accepted |-> out = "ok"])
         /\ tfail' = (out # "ok")
         /\ IF out = "ok" \/ payload
            THEN tpc' = "returned" /\ UNCHANGED terr
            ELSE TrustRaise("AttributeError")
    /\ UNCHANGED <<tissuer, tbuilder, tbase, overlap>>
    /\ UNCHANGED <<pollVars, sendVars, fedVars, users, walletDomain>>

\* A send and a call of trust_issuer on the same custodial account, each on
\* its own Interface, run at the same time: nothing in either takes a lock.
AdminSendFew == AdminSendOf({RawDest, FedName}, {RawIssuer}, {TRUE})

InitSubmit ==
    /\ InitPoll
    /\ InitFedIdle
    /\ InitTrustIdle
    /\ funded = {HotAddr, RawDest}
    /\ spc = "idle"
    /\ stx = NoTx
    /\ builder = NoBuilder
    /\ saddr = NoStr
    /\ sroute = ""
    /\ iroute = ""
    /\ sfed = NoFed
    /\ serr = "none"
    /\ subfail = FALSE
    /\ submitted = <<>>
    /\ confirms = <<>>
    /\ sbase = 0

NextSubmit ==
    \/ AdminSendFew
    \/ SendResolve
    \/ SendBuild
    \/ SendSign
    \/ AdminConfirm
    \/ TrustStart
    \/ TrustBuild
    \/ TrustSign

SpecSubmit == InitSubmit /\ [][NextSubmit]_vars

----------------------------------------------------------------------------
\* The federation server: StellarFederationView.get

ReceiveAddress == MkAddr("r")   \* settings.STELLAR_RECEIVE_ADDRESS

OtherDomain == <<"x", ".", "y">>
Shorts  == {Alice, Bob, <<"a">>}
Domains == {RehiveDomain, OtherDomain}

FullName(short, domain) == short \o <<Star>> \o domain

\* account identifiers a UserAccount row may hold
CandidateUsers ==
    {FullName(Alice, RehiveDomain), FullName(Bob, RehiveDomain),
     FullName(Alice, OtherDomain), Alice}

LookupTypes == {"name", "id", "forward", ""}

Fault(kind) ==
    [status |-> kind, stellar_address |-> NoStr, account_id |-> NoStr,
     memo_type |-> "", memo |-> NoStr]

\* the mutant of the memo of the response: the whole address
FederationMemoWhole(address) == address

\* address.split('*')[0], line 62
FederationMemo(address) == SplitFirst(address, Star)

\* UserAccount.objects.filter(account_id=account_id), line 58
UserExists(account_id) == account_id \in users

\* the mutant of the view: the lookup type is not looked at
FederationViewAnyType(type, q) ==
    IF q # NoStr
    THEN IF UserExists(q)
         THEN [status |-> "200", stellar_address |-> q,
               account_id |-> ReceiveAddress, memo_type |-> "text",
               memo |-> FederationMemo(q)]
         ELSE Fault("ValidationError")
    ELSE Fault("ParseError")

\* StellarFederationView.get, lines 53-68
FederationView(type, q) ==
    IF type = "name"
    THEN IF q # NoStr
         THEN IF UserExists(q)
              THEN [status |-> "200", stellar_address |-> q,
                    account_id |-> ReceiveAddress, memo_type |-> "text",
                    memo |-> FederationMemo(q)]
              ELSE Fault("ValidationError")   \* 'Stellar address does not exist.'
         ELSE Fault("ParseError")
    ELSE Fault("NotImplementedAPIError")

\* line 58 is reached: type is 'name' and q is not empty
FederationReads(type, q) == type = "name" /\ q # NoStr

\* the methods of a request other than GET: post() raises MethodNotAllowed,
\* the view has no handler for the others
OtherMethods == {"POST", "PUT", "DELETE"}

Query(form, short, domain) ==
    CASE form = "full"   -> FullName(short, domain)
      [] form = "short"  -> short
      [] form = "absent" -> NoStr

FederationGetOf(types, shorts, domains, forms) ==
    /\ \E type \in types, short \in shorts, domain \in domains, form \in forms :
         LET q == Query(form, short, domain)
         IN  /\ fedReq' = [method |-> "GET", type |-> type, q |-> q, short |-> short]
             /\ fedResp' = FederationView(type, q)
             /\ fedRead' = FederationReads(type, q)
    /\ UNCHANGED <<pollVars, sendVars, trustVars, seqVars, users, walletDomain>>

FederationGet == FederationGetOf(LookupTypes, Shorts, Domains, {"full", "short", "absent"})

\* a request with another method: lines 45, 49-50
FederationReject ==
    /\ \E method \in OtherMethods, type \in LookupTypes, short \in Shorts,
          domain \in Domains, form \in {"full", "absent"} :
         /\ fedReq' = [method |-> method, type |-> type,
                       q |-> Query(form, short, domain), short |-> short]
         /\ fedResp' = Fault("MethodNotAllowed")
         /\ fedRead' = FALSE
    /\ UNCHANGED <<pollVars, sendVars, trustVars, seqVars, users, walletDomain>>

InitFederation ==
    /\ net = <<>>
    /\ rows = <<>>
    /\ assets = <<>>
    /\ users \in SUBSET CandidateUsers
    /\ pc = [p \in Pollers |-> "idle"]
    /\ cursor = [p \in Pollers |-> NoCursor]
    /\ page = [p \in Pollers |-> <<>>]
    /\ got = [p \in Pollers |-> <<>>]
    /\ batch = [p \in Pollers |-> <<>>]
    /\ fin = [p \in Pollers |-> "none"]
    /\ quiet = FALSE
    /\ lastNet = -1
    /\ startNet = 0
    /\ added = 0
    /\ ledger = <<>>
    /\ upl = NoUpload
    /\ InitSendIdle
    /\ InitTrustIdle
    /\ InitFedIdle

NextFederation ==
    \/ FederationGet
    \/ FederationReject

SpecFederation == InitFederation /\ [][NextFederation]_vars

----------------------------------------------------------------------------
\* The addressing round trip: a UserAccount gets the account_id of
\* new_account_id, a sender asks the federation server for it and pays the
\* custodial account with the memo of the answer, and the poller processes
\* the payment

Usernames == {Alice, Bob}

\* Interface.new_account_id(metadata={'username': ...}), lines 252-255, stored
\* as the account_id of a new UserAccount
NewUser ==
    /\ \E username \in Usernames :
         users' = users \cup {FullName(username, walletDomain)}
    /\ UNCHANGED <<pollVars, sendVars, trustVars, seqVars, fedVars, walletDomain>>

\* a sender looks up the address of a user of this wallet
FederationLookup == FederationGetOf({"name"}, Usernames, {walletDomain}, {"full"})

\* the sender pays the custodial account with the memo of the answer
NetPaymentMemo ==
    /\ fedResp.status = "200"
    /\ NetPaymentOf({"in"}, {fedResp.memo}, AssetKinds, {FALSE})

InitRound ==
    /\ InitPollWith({<<>>}, {{}})
    /\ InitSendIdle
    /\ InitTrustIdle
    /\ fedReq = NoReq
    /\ fedResp = NoResp
    /\ fedRead = FALSE
    /\ walletDomain \in Domains

NextRound ==
    \/ NewUser
    \/ FederationLookup
    \/ NetPaymentMemo
    \/ PollCursor(1)
    \/ PollFetch(1)
    \/ ProcessReceive(1)
    \/ PollFinish(1)

SpecRound == InitRound /\ [][NextRound]_vars

----------------------------------------------------------------------------
\* Claims about the receive poller

IsReceive(r) == r.to = HotWallet /\ r.from # HotWallet

\* C10: the list _get_receives returns holds no record sent by the custodial
\* account, and holds every record of the page that another account sent to
\* the custodial account, in the order of the page.
C10_NoSendsAllReceives ==
    \A p \in Pollers :
        /\ \A i \in 1..Len(got[p]) : got[p][i].from # HotWallet
        /\ SelectSeq(got[p], IsReceive) = SelectSeq(page[p], IsReceive)

RowsOfHash(h) == {i \in 1..Len(rows) : rows[i].external_id = h}

InList(r, list) == \E i \in 1..Len(list) : list[i] = r

\* a record both pollers were handed by _get_new_receives in their last cycle
ObservedByBoth(r) == InList(r, got[1]) /\ InList(r, got[2])

BothFinished == \A p \in Pollers : pc[p] = "idle" /\ fin[p] = "done"

StatusStepClaimed(old, new) ==
    \/ old = "Waiting" /\ new = "Pending"
    \/ old = "Pending" /\ new = "Confirmed"
    \/ old = "Confirmed" /\ new = "Complete"
    \/ old \notin {"Complete", "Failed"} /\ new = "Failed"

----------------------------------------------------------------------------
\* Claims about the send path

\* the three classes of the address classification rule
ClassOf(id) ==
    IF Len(id) = 56 /\ \A i \in 1..Len(id) : id[i] # "*" THEN "raw"
    ELSE IF \E i \in 1..Len(id) : id[i] = "*" THEN "federated"
    ELSE "anchor"

HasOp(t, type) == \E k \in 1..Len(t.ops) : t.ops[k].type = type

\* C5: a native send to a raw address submits an account-creation operation
\* for the destination, with the send amount as its starting balance, and no
\* payment operation when the destination does not exist on the network; it
\* submits a payment operation and no account-creation operation when the
\* destination exists.
C5_CreateAccountFallback ==
    \A n \in 1..Len(submitted) :
        (stx.asset = "XLM" /\ ClassOf(stx.recipient) = "raw") =>
            IF stx.recipient \notin funded
            THEN /\ \E k \in 1..Len(submitted[n].ops) :
                        submitted[n].ops[k] = CreateAccountOp(stx.recipient, stx.amount)
                 /\ ~HasOp(submitted[n], "payment")
            ELSE /\ HasOp(submitted[n], "payment")
                 /\ ~HasOp(submitted[n], "create_account")

\* C6: when signing or submitting failed, send raises SubmissionFailed to its
\* caller; it never returns normally.
C6_SubmissionFailureRaised ==
    subfail => (spc = "raised" /\ serr = "SubmissionFailed")

\* C7: a transaction submitted for a federated recipient whose resolution gave
\* memo type text, id or hash carries exactly one memo, of that type and
\* value; one submitted for a raw recipient carries no memo; no transaction
\* carries more than one memo.
C7_MemoPropagation ==
    \A n \in 1..Len(submitted) :
        /\ Len(submitted[n].memos) <= 1
        /\ ClassOf(stx.recipient) = "raw" => submitted[n].memos = <<>>
        /\ (ClassOf(stx.recipient) = "federated"
              /\ sfed.memo_type \in {"text", "id", "hash"})
             => submitted[n].memos = <<[type |-> sfed.memo_type, value |-> sfed.memo]>>

C7_Witness ==
    /\ Len(submitted) = 1
    /\ ClassOf(stx.recipient) = "federated"
    /\ sfed.memo_type = "id"
    /\ submitted[1].memos = <<[type |-> "id", value |-> Bob]>>

ResolverOf(class) ==
    CASE class = "raw"       -> "raw"
      [] class = "federated" -> "get_federation_details"
      [] class = "anchor"    -> "address_from_domain"

\* C8: send uses a raw recipient as it is and resolves a federated recipient
\* with get_federation_details; get_issuer_address uses a raw issuer as it is,
\* resolves a federated issuer with get_federation_details and an anchor
\* domain with address_from_domain.
C8_Classification ==
    /\ (sroute # "" /\ ClassOf(stx.recipient) = "raw")
          => (sroute = "raw" /\ saddr = stx.recipient)
    /\ (sroute # "" /\ ClassOf(stx.recipient) = "federated")
          => sroute = "get_federation_details"
    /\ iroute # "" => iroute = ResolverOf(ClassOf(stx.issuer))
    /\ (iroute # "" /\ ClassOf(stx.issuer) = "raw") =>
          \A k \in 1..Len(builder.ops) : builder.ops[k].issuer = stx.issuer

C8_Witness ==
    /\ ClassOf(stx.recipient) = "federated"
    /\ Len(stx.recipient) = 56
    /\ sroute = "get_federation_details"
    /\ ClassOf(stx.issuer) = "anchor"
    /\ iroute = "address_from_domain"
    /\ Len(builder.ops) = 1

----------------------------------------------------------------------------
\* Claims about the federation server

WellFormedQuery ==
    \E domain \in Domains : fedReq.q = FullName(fedReq.short, domain)

\* C9: a name lookup (a GET request) with q = <shortname>*<domain> succeeds iff a UserAccount
\* has account_id equal to q; the response then has the configured receive
\* address as account_id, memo type text and the short name as memo; with no
\* such UserAccount it fails with the validation error "address does not
\* exist" (UnknownRecipient).
C9_NameLookup ==
    (fedReq.method = "GET" /\ fedReq.type = "name" /\ WellFormedQuery) =>
        /\ fedResp.status = "200" <=> fedReq.q \in users
        /\ fedResp.status = "200" =>
              /\ fedResp.account_id = ReceiveAddress
              /\ fedResp.memo_type = "text"
              /\ fedResp.memo = fedReq.short
        /\ fedReq.q \notin users => fedResp.status = "ValidationError"

C9_Witness ==
    /\ fedReq.method = "GET"
    /\ fedReq.type = "name"
    /\ fedReq.q = FullName(Alice, OtherDomain)
    /\ fedResp.status = "200"
    /\ fedResp.memo = Alice
    /\ FullName(Alice, RehiveDomain) \notin users

----------------------------------------------------------------------------
\* Claims about the receive poller, continued

\* a record _process_receive finds no UserAccount for
Unmatched(tx) == tx.memo = NoStr \/ UserKey(tx.memo) \notin users

\* C11: within one poll cycle, the iteration of process_receives on a record
\* that has no memo, or whose memo names no existing UserAccount, creates no
\* row and raises nothing, and the loop goes on with the records after it.
C11_UnmatchedSkipped ==
    [][\A p \in Pollers :
          (/\ pc[p] = "batch"
           /\ batch[p] # <<>>
           /\ batch'[p] # batch[p]
           /\ Unmatched(Head(batch[p])))
          => /\ rows' = rows
             /\ fin'[p] # "raised"
             /\ batch'[p] = Tail(batch[p])]_vars

----------------------------------------------------------------------------
\* Claims about sends and trust calls that run at the same time

\* C12: the build -> sign -> submit sections of a send and of a call of
\* trust_issuer on the same custodial account never overlap, and when the two
\* ran at the same time no two transactions built from the same base sequence
\* number were both signed and submitted.
C12_NoOverlap ==
    /\ ~(InSendSection /\ InTrustSection)
    /\ overlap =>
          \A n \in 1..Len(submitted), k \in 1..Len(tsubmitted) :
              submitted[n].base # tsubmitted[k].base

----------------------------------------------------------------------------
\* Claims about the federation server, continued

\* C13: a GET request whose lookup type is not 'name' (an absent type
\* included) fails with NotImplementedAPIError whatever q is and whether or not
\* a UserAccount matches it; a request that is not a GET is rejected with
\* MethodNotAllowed; serving either neither queries nor changes the
\* UserAccount table.
C13_UnsupportedRejected ==
    [][/\ users' = users
       /\ (fedReq'.method = "GET" /\ fedReq'.type # "name")
             => (fedResp'.status = "NotImplementedAPIError" /\ ~fedRead')
       /\ fedReq'.method \in OtherMethods
             => (fedResp'.status = "MethodNotAllowed" /\ ~fedRead')]_vars

C13_Witness ==
    /\ fedReq.method = "GET"
    /\ fedReq.type = ""
    /\ fedReq.q = FullName(Alice, RehiveDomain)
    /\ fedReq.q \in users
    /\ fedResp.status = "NotImplementedAPIError"

----------------------------------------------------------------------------
\* Claims about the send path, continued

\* C14: confirm_rehive_transaction is called, with the id of the
\* SendTransaction and the type 'send', only after the payment transaction of
\* that send was signed and submitted successfully; when resolving, building,
\* signing or submitting failed, it is not called.
C14_ConfirmAfterSuccess ==
    \A c \in 1..Len(confirms) :
        /\ confirms[c] = [tx_id |-> stx.id, tx_type |-> "send"]
        /\ ~subfail
        /\ \E n \in 1..Len(submitted) : submitted[n].accepted

----------------------------------------------------------------------------
\* Claims about the cursor of the receive poller

\* the largest paging token of the stored rows
MaxToken(table) ==
    CHOOSE t \in {table[i].paging_token : i \in 1..Len(table)} :
        \A i \in 1..Len(table) : table[i].paging_token <= t

----------------------------------------------------------------------------
\* Claims about the upload of a receipt

CreateCall(i)  == [call |-> "create_or_confirm", id |-> i, confirm |-> FALSE]
ConfirmCall(i) == [call |-> "create_or_confirm", id |-> i, confirm |-> TRUE]

\* C17: one call of upload_to_rehive on a row asks the ledger to create the
\* receipt (confirm = False) iff the stored row has no rehive_code and status
\* Pending, asks it to confirm (confirm = True) iff the stored row has a
\* rehive_code and status Confirmed, and makes no call otherwise; it makes at
\* most one call and leaves the row as it was.
C17_UploadTrigger ==
    [][upl'.row # 0 =>
          LET i == upl'.row
              r == rows[i]
              new == upl'.calls
          IN  /\ rows' = rows
              /\ ledger' = ledger \o new
              /\ Len(new) <= 1
              /\ new = <<CreateCall(i)>>
                    <=> (r.rehive_code = NoStr /\ r.status = "Pending")
              /\ new = <<ConfirmCall(i)>>
                    <=> (r.rehive_code # NoStr /\ r.status = "Confirmed")
              /\ new = <<>>
                    <=> ~(\/ r.rehive_code = NoStr /\ r.status = "Pending"
                          \/ r.rehive_code # NoStr /\ r.status = "Confirmed")]_vars

C17_Witness ==
    /\ upl.row = 2
    /\ rows[2].status = "Confirmed"
    /\ rows[2].rehive_code # NoStr
    /\ rows[1].status = "Pending"
    /\ rows[1].rehive_code = NoStr
    /\ ledger = <<CreateCall(1), ConfirmCall(2)>>

----------------------------------------------------------------------------
\* Claims about trust_issuer

ResolutionErrors == {"TypeError", "ValueError", "LookupFailed"}

\* C18: a call of trust_issuer in which signing or submitting the trust
\* transaction failed returns normally; the only exceptions that leave
\* trust_issuer (on an account that has a secret) are those of resolving the
\* issuer.
C18_TrustFailureSwallowed ==
    /\ tfail => tpc = "returned"
    /\ (tbuilder.has /\ tpc = "raised") => terr \in ResolutionErrors

----------------------------------------------------------------------------
\* Claims about the Asset rows of receipts

\* the (code, issuer) pair of a record of the network
CodeOf(tx) == IF tx.asset_type = "native" THEN "XLM" ELSE tx.asset_code
PairAssets(table, tx) ==
    {a \in 1..Len(table) :
        table[a].code = CodeOf(tx) /\ table[a].account_id = tx.asset_issuer}

\* C19: at most one Asset row exists for a (code, issuer) pair; processing a
\* record that names a user creates a ReceiveTransaction that references the
\* one Asset row of the record's pair, the Asset row being created when the
\* pair has none (so records of one code and different issuers reference
\* different Asset rows).
C19_AssetPerPair ==
    [][/\ \A a, b \in 1..Len(assets') :
             (assets'[a].code = assets'[b].code
                /\ assets'[a].account_id = assets'[b].account_id) => a = b
       /\ \A p \in Pollers :
             (/\ pc[p] = "batch"
              /\ batch[p] # <<>>
              /\ batch'[p] # batch[p]
              /\ ~Unmatched(Head(batch[p])))
             => /\ Len(rows') = Len(rows) + 1
                /\ PairAssets(assets', Head(batch[p])) = {rows'[Len(rows')].asset}]_vars

----------------------------------------------------------------------------
\* Claims about the operations of a send

\* C20: every transaction send hands to submit() holds exactly one operation,
\* a payment or an account creation, to the resolved destination; send gets
\* to signing (with the Builder of an account that has a secret) only with
\* that one operation appended, so when none was appended nothing is signed or
\* submitted.
C20_OneOperation ==
    /\ \A n \in 1..Len(submitted) :
          /\ Len(submitted[n].ops) = 1
          /\ submitted[n].ops[1].type \in {"payment", "create_account"}
          /\ submitted[n].ops[1].destination = saddr
    /\ (builder.has /\ spc \in {"sign", "returned", "confirmed"})
          => Len(builder.ops) = 1

----------------------------------------------------------------------------
\* Claims about the progress of the receive poller

\* record k of the history is a payment to the custodial account from another
\* account whose memo names an existing UserAccount
MatchedReceive(k) ==
    /\ k <= Len(net)
    /\ IsReceive(net[k])
    /\ net[k].memo # NoStr
    /\ UserKey(net[k].memo) \in users

Recorded(k) ==
    /\ k <= Len(net)
    /\ \E i \in 1..Len(rows) : rows[i].paging_token = net[k].paging_token

\* C21: with poll cycles scheduled again and again, every payment to the
\* custodial account whose memo names an existing UserAccount is eventually
\* stored as a ReceiveTransaction, whatever records precede or follow it in
\* the history.
C21_EventuallyRecorded ==
    \A k \in 1..MaxNet : MatchedReceive(k) ~> Recorded(k)

----------------------------------------------------------------------------
\* Claims about the addressing round trip

\* the memo the federation server answers for a name lookup of id
MemoFor(id) == FederationView("name", id).memo

\* C22: for every UserAccount whose account_id is <username>*<wallet domain>
\* (new_account_id), processing a payment that carries the memo the
\* federation server answers for that account_id looks up that same
\* account_id and creates a ReceiveTransaction of that UserAccount, whatever
\* the configured wallet domain.
C22_AddressRoundTrip ==
    [][\A p \in Pollers :
          (/\ pc[p] = "batch"
           /\ batch[p] # <<>>
           /\ batch'[p] # batch[p])
          => \A id \in users :
                MemoFor(id) = Head(batch[p]).memo
                   => /\ UserKey(Head(batch[p]).memo) = id
                      /\ Len(rows') = Len(rows) + 1
                      /\ rows'[Len(rows')].user_account = id]_vars

====
